---- MODULE Spec2Model ----
(***************************************************************************)
(* The query_results handler of relation_engine_server api v2              *)
(* (api_modules/api_v2.py, run_query) together with the collaborators it   *)
(* calls: the auth utilities, the spec loader and the ArangoDB client.     *)
(* One request is handled to completion by one worker, so run_query is one *)
(* atomic action over the database's cursor table.                          *)
(***************************************************************************)
EXTENDS Integers, Sequences, FiniteSets, TLC

\* ---------------------------------------------------------------- bounds
\* Cursor handles the database hands out before the model stops creating them.
MaxCursors == 1
\* Largest batch_size a caller writes in the query string.
MaxBatch == 1
\* Documents in the test_vertex collection.
NDocs == 2
\* int(flask.request.args.get('batch_size', 100))
DefaultBatchSize == 100

\* Python's None: an absent header, body key, query-string key or JSON null.
None == "None"

Range(s) == {s[i] : i \in DOMAIN s}
Min(a, b) == IF a < b THEN a ELSE b
Take(s, n) == SubSeq(s, 1, Min(n, Len(s)))
Drop(s, n) == SubSeq(s, Min(n, Len(s)) + 1, Len(s))
NoDup(s) == \A i, j \in DOMAIN s : s[i] = s[j] => i = j

\* ------------------------------------------------------- the environment
\* Tokens of the mock auth / workspace services used by the tests.
Tokens == {None, "valid_token", "admin_token", "invalid_token"}

\* A document of test_vertex is private to workspace 1 or 2, or public.
DocKinds ==
    << [is_public |-> FALSE, ws_id |-> 1],
       [is_public |-> FALSE, ws_id |-> 2],
       [is_public |-> TRUE,  ws_id |-> 0] >>

Doc(key, kind) == [key |-> key, is_public |-> kind.is_public, ws_id |-> kind.ws_id]

\* The collections the database may hold, with keys 1..NDocs: public documents
\* only (save_test_docs), a single private document (the auth tests), and two
\* collections that go through the kinds in turn, private or public first.
Collections ==
    { [i \in 1..NDocs |-> Doc(i, DocKinds[Len(DocKinds)])],
      <<Doc(1, DocKinds[2])>>,
      [i \in 1..NDocs |-> Doc(i, DocKinds[((i - 1) % Len(DocKinds)) + 1])],
      [i \in 1..NDocs |-> Doc(i, DocKinds[((i + 1) % Len(DocKinds)) + 1])] }

\* list_test_vertices.aql, which is also the ad-hoc text of test_auth_adhoc_query.
Scoped == "for o in test_vertex filter o.is_public || o.ws_id IN @ws_ids return o"
\* A query text that declares no bind parameter.
Unscoped == "for o in test_vertex return o"
QueryTexts == {Scoped, Unscoped}

ViewNames == {"list_test_vertices", "nonexistent"}

\* Bind variables are a JSON object: a set of <<key, value>> pairs, one per key.
Keys(bind_vars) == {p[1] : p \in bind_vars}
Lookup(bind_vars, k) == (CHOOSE p \in bind_vars : p[1] = k)[2]

\* What a caller may put under 'bind_vars' in the body.
CallerBindVars == { {}, {<<"ws_ids", <<2>>>>}, {<<"xyz", <<1>>>>} }

BatchArgs == {None, "abc"} \cup {ToString(n) : n \in 1..MaxBatch}
CursorArgs == {None} \cup {ToString(n) : n \in 1..MaxCursors}

Requests ==
    { r \in [ token : Tokens,
              query : {None} \cup QueryTexts,
              view : {None} \cup ViewNames,
              cursor_id : CursorArgs,
              batch_size : BatchArgs,
              has_bind_vars : BOOLEAN,
              bind_vars : CallerBindVars ] :
        r.has_bind_vars \/ r.bind_vars = {} }

\* ------------------------------------------------------------------ auth
\* auth.get_workspace_ids: the workspace ids the token may read; no token
\* gives the empty list, a rejected token raises AuthError.
get_workspace_ids(token) ==
    IF token = None THEN [error |-> None, ids |-> <<>>]
    ELSE IF token = "valid_token" THEN [error |-> None, ids |-> <<1>>]
    ELSE IF token = "admin_token" THEN [error |-> None, ids |-> <<1, 2>>]
    ELSE [error |-> "AuthError", ids |-> <<>>]

TokenRoles(token) == IF token = "admin_token" THEN {"RE_ADMIN"} ELSE {}

\* auth.require_auth_token(roles): None when the token carries one of the
\* roles, else the error raised.
require_auth_token(token, roles) ==
    IF token = None \/ token = "invalid_token" THEN "AuthError"
    ELSE IF TokenRoles(token) \cap roles = {} THEN "PermissionError"
    ELSE None

\* ------------------------------------------------------------ spec loader
\* spec_loader.get_view: the template source of a view, None when there is none.
get_view(view_name) ==
    IF view_name = "list_test_vertices" THEN Scoped ELSE None

\* jinja2 rendering of a template source that holds no placeholder.
render(view_str) == view_str

\* -------------------------------------------------------------- database
DeclaredVars(query_text) == IF query_text = Scoped THEN {"ws_ids"} ELSE {}

\* The documents a query text selects, in collection order.
Matching(collection, query_text, bind_vars) ==
    IF query_text = Scoped
    THEN SelectSeq(collection,
                   LAMBDA o : o.is_public \/ o.ws_id \in Range(Lookup(bind_vars, "ws_ids")))
    ELSE collection

\* An error response: the exception raised, its message and, for a database
\* error, the database's own message.
ErrorResp(error, message, arango_message) ==
    [error |-> error, message |-> message, arango_message |-> arango_message,
     results |-> <<>>, count |-> 0, has_more |-> FALSE, cursor_id |-> None]

ArangoServerError(arango_message) ==
    ErrorResp("ArangoServerError", "ArangoDB server error.", arango_message)

Page(results, count, has_more, cursor_id) ==
    [error |-> None, message |-> None, arango_message |-> None, results |-> results,
     count |-> count, has_more |-> has_more, cursor_id |-> cursor_id]

\* arango_client.run_query(cursor_id=...): PUT /_api/cursor/<id>.
advance_cursor(db, cursor_id) ==
    IF cursor_id \notin DOMAIN db.cursors
    THEN [db |-> db, resp |-> ArangoServerError("cursor not found")]
    ELSE LET c == db.cursors[cursor_id]
             page == Take(c.rest, c.batch)
             rest == Drop(c.rest, c.batch)
         IN IF rest = <<>>
            THEN [db |-> [db EXCEPT !.cursors =
                            [i \in DOMAIN db.cursors \ {cursor_id} |-> db.cursors[i]]],
                  resp |-> Page(page, c.count, FALSE, None)]
            ELSE [db |-> [db EXCEPT !.cursors[cursor_id].rest = rest],
                  resp |-> Page(page, c.count, TRUE, cursor_id)]

\* arango_client.run_query(query_text=..., bind_vars=..., batch_size=...):
\* POST /_api/cursor with count = true.
start_query(db, query_text, bind_vars, batch) ==
    IF Keys(bind_vars) # DeclaredVars(query_text)
    THEN [db |-> db, resp |-> ArangoServerError("bind parameter mismatch")]
    ELSE LET all == Matching(db.test_vertex, query_text, bind_vars)
             page == Take(all, batch)
             rest == Drop(all, batch)
             id == ToString(db.nextId)
         IN IF rest = <<>>
            THEN [db |-> db, resp |-> Page(page, Len(all), FALSE, None)]
            ELSE [db |-> [test_vertex |-> db.test_vertex,
                          cursors |-> [i \in DOMAIN db.cursors \cup {id} |->
                                IF i = id
                                THEN [rest |-> rest, count |-> Len(all), batch |-> batch]
                                ELSE db.cursors[i]],
                          nextId |-> db.nextId + 1],
                  resp |-> Page(page, Len(all), TRUE, id)]

StartCall(query_text, bind_vars, batch) ==
    [kind |-> "start", query_text |-> query_text, cursor_id |-> None,
     bind_vars |-> bind_vars, batch_size |-> batch]

AdvanceCall(cursor_id) ==
    [kind |-> "advance", query_text |-> None, cursor_id |-> cursor_id,
     bind_vars |-> {}, batch_size |-> 0]

\* ------------------------------------------------------------- run_query
\* What one run of the handler leaves behind: the branch it entered, the
\* response, the database calls it made, the bind_vars it held, the database.
Outcome(path, resp, calls, bind_vars, db) ==
    [path |-> path, resp |-> resp, calls |-> calls, bind_vars |-> bind_vars, db |-> db]

Raise(path, error, message, bind_vars, db) ==
    Outcome(path, ErrorResp(error, message, None), <<>>, bind_vars, db)

\* Variant: a 'ws_ids' the caller supplied is left in place.
set_ws_ids_keep_caller(has_bind_vars, caller_bind_vars, ids) ==
    LET bind_vars == IF has_bind_vars THEN caller_bind_vars ELSE {}
    IN IF "ws_ids" \in Keys(bind_vars) THEN bind_vars
       ELSE bind_vars \cup {<<"ws_ids", ids>>}

\* Variant: the resolved ids are appended to the caller's list, not put in its place.
set_ws_ids_extend_caller(has_bind_vars, caller_bind_vars, ids) ==
    LET bind_vars == IF has_bind_vars THEN caller_bind_vars ELSE {}
        given == IF "ws_ids" \in Keys(bind_vars) THEN Lookup(bind_vars, "ws_ids") ELSE <<>>
    IN {p \in bind_vars : p[1] # "ws_ids"} \cup {<<"ws_ids", given \o ids>>}

\* Variant: 'ws_ids' stays the empty list of line 21; line 24 is missing.
set_ws_ids_empty(has_bind_vars, caller_bind_vars, ids) ==
    LET bind_vars == IF has_bind_vars THEN caller_bind_vars ELSE {}
    IN {p \in bind_vars : p[1] # "ws_ids"} \cup {<<"ws_ids", <<>>>>}

\* json_body['bind_vars'] after lines 17-24.
set_ws_ids(has_bind_vars, caller_bind_vars, ids) ==
    LET bind_vars == IF has_bind_vars THEN caller_bind_vars ELSE {}
    IN {p \in bind_vars : p[1] # "ws_ids"} \cup {<<"ws_ids", ids>>}

\* int(...) of a query-string value: the decimal literals parse, all else raises.
ParseInt(s) ==
    IF \E n \in 0..MaxBatch : ToString(n) = s
    THEN [error |-> None, value |-> CHOOSE n \in 0..MaxBatch : ToString(n) = s]
    ELSE [error |-> "ValueError", value |-> 0]

\* Variant: the batch_size argument is validated but the default is used.
batch_size_default_only(arg) ==
    IF arg = None THEN [error |-> None, value |-> DefaultBatchSize]
    ELSE [error |-> ParseInt(arg).error, value |-> DefaultBatchSize]

\* Line 26.
batch_size(arg) ==
    IF arg = None THEN [error |-> None, value |-> DefaultBatchSize] ELSE ParseInt(arg)

\* Variant: no role check in front of the ad-hoc query.
adhoc_path_unchecked(r, bind_vars, batch, db) ==
    LET got == start_query(db, r.query, bind_vars, batch)
    IN Outcome("adhoc", got.resp, <<StartCall(r.query, bind_vars, batch)>>,
               bind_vars, got.db)

\* Variant: the role check comes after the query has been run.
adhoc_path_check_late(r, bind_vars, batch, db) ==
    LET got == start_query(db, r.query, bind_vars, batch)
        denied == require_auth_token(r.token, {"RE_ADMIN"})
    IN Outcome("adhoc",
               IF denied # None THEN ErrorResp(denied, None, None) ELSE got.resp,
               <<StartCall(r.query, bind_vars, batch)>>, bind_vars, got.db)

\* Lines 27-34.
adhoc_path(r, bind_vars, batch, db) ==
    LET denied == require_auth_token(r.token, {"RE_ADMIN"})
    IN IF denied # None
       THEN Raise("adhoc", denied, None, bind_vars, db)
       ELSE LET got == start_query(db, r.query, bind_vars, batch)
            IN Outcome("adhoc", got.resp, <<StartCall(r.query, bind_vars, batch)>>,
                       bind_vars, got.db)

\* Variant: the rendered query is run, and run once more when the first run failed.
view_path_retry(r, bind_vars, batch, db) ==
    LET view_str == get_view(r.view)
    IN IF view_str = None
       THEN Raise("view", "ViewNonexistent", "View does not exist.", bind_vars, db)
       ELSE LET compiled_query == render(view_str)
                call == StartCall(compiled_query, bind_vars, batch)
                got == start_query(db, compiled_query, bind_vars, batch)
                again == start_query(got.db, compiled_query, bind_vars, batch)
            IN IF got.resp.error = None
               THEN Outcome("view", got.resp, <<call>>, bind_vars, got.db)
               ELSE Outcome("view", again.resp, <<call, call>>, bind_vars, again.db)

\* Lines 35-44.
view_path(r, bind_vars, batch, db) ==
    LET view_str == get_view(r.view)
    IN IF view_str = None
       THEN Raise("view", "ViewNonexistent", "View does not exist.", bind_vars, db)
       ELSE LET compiled_query == render(view_str)
                got == start_query(db, compiled_query, bind_vars, batch)
            IN Outcome("view", got.resp, <<StartCall(compiled_query, bind_vars, batch)>>,
                       bind_vars, got.db)

\* Variant: a database error on the cursor path is answered with an empty page.
cursor_path_swallow_error(r, bind_vars, batch, db) ==
    LET got == advance_cursor(db, r.cursor_id)
    IN Outcome("cursor",
               IF got.resp.error # None THEN Page(<<>>, 0, FALSE, None) ELSE got.resp,
               <<AdvanceCall(r.cursor_id)>>, bind_vars, got.db)

\* Variant: the page echoes the cursor_id of the request.
cursor_path_echo_id(r, bind_vars, batch, db) ==
    LET got == advance_cursor(db, r.cursor_id)
    IN Outcome("cursor",
               IF got.resp.error # None THEN got.resp
               ELSE [got.resp EXCEPT !.cursor_id = r.cursor_id],
               <<AdvanceCall(r.cursor_id)>>, bind_vars, got.db)

\* Lines 45-49.
cursor_path(r, bind_vars, batch, db) ==
    LET got == advance_cursor(db, r.cursor_id)
    IN Outcome("cursor", got.resp, <<AdvanceCall(r.cursor_id)>>, bind_vars, got.db)

\* Variant: cursor_id is looked at before view.
dispatch_cursor_first(r, bind_vars, batch, db) ==
    IF r.query # None THEN adhoc_path(r, bind_vars, batch, db)
    ELSE IF r.cursor_id # None THEN cursor_path(r, bind_vars, batch, db)
    ELSE IF r.view # None THEN view_path(r, bind_vars, batch, db)
    ELSE Raise("none", "InvalidParameters", "Pass in a view or a cursor_id", bind_vars, db)

\* The if-chain of lines 27-51.
dispatch(r, bind_vars, batch, db) ==
    IF r.query # None THEN adhoc_path(r, bind_vars, batch, db)
    ELSE IF r.view # None THEN view_path(r, bind_vars, batch, db)
    ELSE IF r.cursor_id # None THEN cursor_path(r, bind_vars, batch, db)
    ELSE Raise("none", "InvalidParameters", "Pass in a view or a cursor_id", bind_vars, db)

\* The handler, lines 17-51.
handle(r, db) ==
    LET ws == get_workspace_ids(r.token)
    IN IF ws.error # None
       THEN Raise("auth", ws.error, None, {<<"ws_ids", <<>>>>}, db)
       ELSE LET bind_vars == set_ws_ids(r.has_bind_vars, r.bind_vars, ws.ids)
                batch == batch_size(r.batch_size)
            IN IF batch.error # None
               THEN Raise("batch_size", batch.error, None, bind_vars, db)
               ELSE dispatch(r, bind_vars, batch.value, db)

\* ----------------------------------------------------------------- state
VARIABLES
    test_vertex, \* the documents of the collection the queries read
    cursors,     \* the database's live cursors: handle -> rest, count, batch
    nextId,      \* the next cursor handle the database hands out
    req,         \* the request a worker is handling; NoRequest when idle
    out,         \* what the handler did with it (an Outcome, less the database)
    hist,        \* per cursor handle ever handed out: who started it, pages so far
    exhausted,   \* handles for which a page with has_more = false was returned
    stale        \* whether the request names a handle that was already in exhausted

vars == <<test_vertex, cursors, nextId, req, out, hist, exhausted, stale>>

NoRequest ==
    [token |-> None, query |-> None, view |-> None, cursor_id |-> None,
     batch_size |-> None, has_bind_vars |-> FALSE, bind_vars |-> {}]

Idle == [path |-> "idle", resp |-> ErrorResp(None, None, None), calls |-> <<>>, bind_vars |-> {}]

Init ==
    /\ test_vertex \in Collections
    /\ cursors = [i \in {} |-> 0]
    /\ nextId = 1
    /\ req = NoRequest
    /\ out = Idle
    /\ hist = [i \in {} |-> 0]
    /\ exhausted = {}
    /\ stale = FALSE

\* The pages accounted to a cursor handle after this response.
NextHist(r, o) ==
    IF o.resp.error # None THEN hist
    ELSE IF o.path \in {"adhoc", "view"} /\ o.resp.cursor_id # None
    THEN [i \in DOMAIN hist \cup {o.resp.cursor_id} |->
            IF i = o.resp.cursor_id
            THEN [ids |-> get_workspace_ids(r.token).ids, delivered |-> o.resp.results]
            ELSE hist[i]]
    ELSE IF o.path = "cursor" /\ r.cursor_id \in DOMAIN hist
    THEN [hist EXCEPT ![r.cursor_id].delivered = @ \o o.resp.results]
    ELSE hist

\* A worker takes request r and runs the handler on it to completion.
run_query(r) ==
    LET o == handle(r, [test_vertex |-> test_vertex, cursors |-> cursors, nextId |-> nextId])
    IN /\ out.path = "idle"
       /\ o.db.nextId <= MaxCursors + 1
       /\ cursors' = o.db.cursors
       /\ nextId' = o.db.nextId
       /\ req' = r
       /\ out' = [path |-> o.path, resp |-> o.resp, calls |-> o.calls,
                  bind_vars |-> o.bind_vars]
       /\ hist' = NextHist(r, o)
       /\ stale' = (r.cursor_id \in exhausted)
       /\ exhausted' = IF o.path = "cursor" /\ o.resp.error = None /\ ~o.resp.has_more
                       THEN exhausted \cup {r.cursor_id}
                       ELSE exhausted
       /\ UNCHANGED test_vertex

\* The response is sent; the request envelope is discarded with it.
send_response ==
    /\ out.path # "idle"
    /\ req' = NoRequest
    /\ out' = Idle
    /\ stale' = FALSE
    /\ hist' = [i \in DOMAIN hist \ exhausted |-> hist[i]]
    /\ UNCHANGED <<test_vertex, cursors, nextId, exhausted>>

Next ==
    \/ \E r \in Requests : run_query(r)
    \/ send_response

Spec == Init /\ [][Next]_vars

\* ---------------------------------------------------------------- claims
Handled == out.path # "idle"
Succeeded == Handled /\ out.resp.error = None
\* The ids the auth service resolves for the request's token.
Resolved == get_workspace_ids(req.token).ids
\* The documents a caller with these workspace ids may read.
Visible(ids) == {d \in Range(test_vertex) : d.is_public \/ d.ws_id \in Range(ids)}
\* Every document of the query a response belongs to: its page and what the
\* cursor it returns still holds.
FullResults ==
    Range(out.resp.results) \cup
        (IF out.resp.cursor_id \in DOMAIN cursors
         THEN Range(cursors[out.resp.cursor_id].rest) ELSE {})
TokenRejected == get_workspace_ids(req.token).error # None
BatchMalformed == batch_size(req.batch_size).error # None
IsAdmin == "RE_ADMIN" \in TokenRoles(req.token)
\* The batch size the caller asked for: the number written, 100 when none is.
RequestedBatch ==
    IF req.batch_size = None THEN DefaultBatchSize ELSE ParseInt(req.batch_size).value
CallerWsIds ==
    IF "ws_ids" \in Keys(req.bind_vars) THEN Lookup(req.bind_vars, "ws_ids") ELSE <<>>

\* C1: on the view path and on the cursor path the 'ws_ids' run_query holds at
\* dispatch, and passes to the database when it passes bind_vars, is the list
\* the auth service resolved for the token (empty without a token), whatever
\* the caller wrote under bind_vars['ws_ids'].
C1_WsIdsServerAssigned ==
    out.path \in {"view", "cursor"} =>
        /\ "ws_ids" \in Keys(out.bind_vars)
        /\ Lookup(out.bind_vars, "ws_ids") = Resolved
        /\ req.token = None => Lookup(out.bind_vars, "ws_ids") = <<>>
        /\ \A i \in DOMAIN out.calls :
              out.calls[i].kind = "start" =>
                  Lookup(out.calls[i].bind_vars, "ws_ids") = Resolved

C1_Witness ==
    /\ out.path = "view"
    /\ out.calls # <<>>
    /\ "ws_ids" \in Keys(req.bind_vars)
    /\ CallerWsIds # Resolved
    /\ Resolved # <<>>

\* The branch the selectors alone pick: query, else view, else cursor_id, else
\* InvalidParameters.
PriorityFollowed ==
    IF req.query # None THEN out.path = "adhoc"
    ELSE IF req.view # None THEN out.path = "view"
    ELSE IF req.cursor_id # None THEN out.path = "cursor"
    ELSE /\ out.path = "none"
         /\ out.resp.error = "InvalidParameters"
         /\ out.resp.message = "Pass in a view or a cursor_id"

C4_AuthFailsClosed ==
    [][out'.resp.error \in {"AuthError", "PermissionError"} =>
          /\ out'.calls = <<>>
          /\ cursors' = cursors
          /\ nextId' = nextId]_vars

C4_Witness ==
    /\ out.resp.error \in {"AuthError", "PermissionError"}
    /\ req.cursor_id \in DOMAIN cursors
    /\ req.query # None
    /\ req.token = "valid_token"

CursorNotFound ==
    /\ out.resp.error = "ArangoServerError"
    /\ out.resp.arango_message = "cursor not found"

\* C5 as stated: every request that passes the id of a cursor already reported
\* with has_more = false fails with 'cursor not found'.
C5_StaleCursorAlwaysFails == (Handled /\ stale) => CursorNotFound

\* C5 as amended: every request that reaches the cursor branch (no 'query', no
\* 'view', token not rejected, batch_size an integer or absent) with the id of
\* a cursor already reported with has_more = false fails with 'cursor not
\* found' and returns no page.
C5_StaleCursorFailsOnCursorPath ==
    (out.path = "cursor" /\ stale) => (CursorNotFound /\ out.resp.results = <<>>)

C5_Witness == out.path = "cursor" /\ stale /\ out.calls # <<>>

\* C6: a successful page has a cursor_id exactly when has_more is true.
C6_CursorIdIffHasMore ==
    Succeeded => (out.resp.has_more <=> out.resp.cursor_id # None)

C6_Witness ==
    /\ out.path = "cursor"
    /\ Succeeded
    /\ ~out.resp.has_more
    /\ out.resp.results # <<>>

\* C7: a view query over N matching documents with batch size B gives a first
\* page of at most B documents; every page carries count = N; has_more is true
\* exactly while documents remain; and the pages up to has_more = false hold
\* each of the N documents once.
C7_PaginationRoundTrip ==
    /\ (out.path = "view" /\ Succeeded) =>
          LET B == RequestedBatch
              N == Cardinality(Visible(Resolved))
          IN /\ Len(out.resp.results) = Min(B, N)
             /\ out.resp.count = N
             /\ out.resp.has_more <=> (N > B)
             /\ NoDup(out.resp.results)
             /\ Range(out.resp.results) \subseteq Visible(Resolved)
    /\ \A c \in DOMAIN hist :
          LET N == Cardinality(Visible(hist[c].ids))
          IN /\ NoDup(hist[c].delivered)
             /\ Range(hist[c].delivered) \subseteq Visible(hist[c].ids)
             /\ c \in exhausted <=> Len(hist[c].delivered) = N
    /\ (out.path = "cursor" /\ Succeeded) =>
          /\ req.cursor_id \in DOMAIN hist
          /\ out.resp.results # <<>>
          /\ out.resp.count = Cardinality(Visible(hist[req.cursor_id].ids))
          /\ out.resp.has_more <=>
                (Len(hist[req.cursor_id].delivered) < out.resp.count)

C7_Witness ==
    /\ out.path = "cursor"
    /\ Succeeded
    /\ ~out.resp.has_more
    /\ Len(hist[req.cursor_id].delivered) = NDocs
    /\ out.resp.count = NDocs

FailsBeforeDispatch ==
    \/ TokenRejected
    \/ BatchMalformed
    \/ req.query # None /\ ~IsAdmin
    \/ req.query = None /\ req.view # None /\ get_view(req.view) = None
    \/ req.query = None /\ req.view = None /\ req.cursor_id = None

C9_AdhocWsIdsResolved ==
    (out.path = "adhoc" /\ out.calls # <<>>) =>
        /\ IsAdmin
        /\ out.calls[1].query_text = req.query
        /\ Lookup(out.calls[1].bind_vars, "ws_ids") = Resolved
        /\ Resolved # <<>>
        /\ (Succeeded /\ req.query = Scoped) =>
              /\ FullResults = Visible(Resolved)
              /\ out.resp.count = Cardinality(Visible(Resolved))

C9_Witness ==
    /\ out.path = "adhoc"
    /\ Succeeded
    /\ \E d \in FullResults : ~d.is_public

\* C10: in the results of a view query that filters on @ws_ids, a private
\* document is present exactly when its workspace is among the ids resolved for
\* the caller's token, whatever the caller wrote under bind_vars.
C10_PrivateDocsByResolvedIds ==
    (out.path = "view" /\ Succeeded) =>
        \A d \in Range(test_vertex) :
            ~d.is_public => (d \in FullResults <=> d.ws_id \in Range(Resolved))

C10_Witness ==
    /\ out.path = "view"
    /\ Succeeded
    /\ "ws_ids" \in Keys(req.bind_vars)
    /\ \E d \in Range(test_vertex) :
          ~d.is_public /\ d.ws_id \in Range(CallerWsIds) /\ d \notin FullResults
    /\ \E d \in FullResults : ~d.is_public

====
